---- MODULE Spec2Model ----
(***************************************************************************)
(* Model of the game-swap finder (package main).  The program reads the    *)
(* schedule CSV into swap.games, looks the target game up by id, selects   *)
(* its division from the `divisions` table, deletes the games before the   *)
(* cut-off date or outside the swappable divisions, builds the lists of    *)
(* dates and teams to exclude, deletes the games these lists hit and       *)
(* writes the remaining games to <gameId>.csv.                             *)
(*                                                                         *)
(* Go strings are sequences of one-character strings, so that              *)
(* strings.Cut, strings.ToUpper, regexp matching and time.Parse are        *)
(* computed on the characters.  A CSV record is a sequence of strings.     *)
(* Instants are counted in ticks of 1/TicksPerDay of a day since           *)
(* 1970-01-01T00:00Z; the local zone of time.Now() is taken to be UTC.     *)
(* The contact look-up is left out.  For one run the records that          *)
(* reader.ReadAll finds in the file downloadSchedule has written are the   *)
(* input; the download and the reading back of what it wrote are steps     *)
(* where two runs are taken together.                                      *)
(***************************************************************************)
EXTENDS Integers, Sequences, FiniteSets, TLC

VARIABLES
    schedule,    \* records held by the schedule file (fi), never written
    cutOffDate,  \* instant: time.Now().AddDate(0, 0, 10)
    swap,        \* swap_t
    division,    \* division_type selected for the target game
    output,      \* game records written to <gameId>.csv
    pc,          \* position of main
    arg,         \* argument of a table look-up tried on its own
    res,         \* its result
    loaded       \* the array reader.ReadAll allocated, at its full length

vars == <<schedule, cutOffDate, swap, division, output, pc, arg, res, loaded>>

----------------------------------------------------------------------------
(* Constants used to access game records (0-based, as in the source).      *)

DIVISION == 0
GAMEID == 1
DATE == 2
TIME == 3
VENUE == 4
HOMETEAM == 5
AWAYTEAM == 6

\* game[FIELD] of the source: sequences here are 1-based
Field(game, f) == game[f + 1]

----------------------------------------------------------------------------
(* strings                                                                 *)

LowerLetters ==
    <<"a","b","c","d","e","f","g","h","i","j","k","l","m",
      "n","o","p","q","r","s","t","u","v","w","x","y","z">>

UpperLetters ==
    <<"A","B","C","D","E","F","G","H","I","J","K","L","M",
      "N","O","P","Q","R","S","T","U","V","W","X","Y","Z">>

\* letters outside ASCII are written as named one-character tokens
LowerAccented ==
    <<"a_grave", "a_circumflex", "c_cedilla", "e_acute", "e_grave",
      "e_circumflex", "i_circumflex", "o_circumflex", "u_grave">>

UpperAccented ==
    <<"A_GRAVE", "A_CIRCUMFLEX", "C_CEDILLA", "E_ACUTE", "E_GRAVE",
      "E_CIRCUMFLEX", "I_CIRCUMFLEX", "O_CIRCUMFLEX", "U_GRAVE">>

\* unicode.ToUpper on the runes of the model's alphabet: ASCII and the
\* accented letters above; digits, spaces and punctuation map to themselves
UpperChar(c) ==
    IF \E i \in 1..Len(LowerLetters) : LowerLetters[i] = c
    THEN UpperLetters[CHOOSE i \in 1..Len(LowerLetters) : LowerLetters[i] = c]
    ELSE IF \E i \in 1..Len(LowerAccented) : LowerAccented[i] = c
    THEN UpperAccented[CHOOSE i \in 1..Len(LowerAccented) : LowerAccented[i] = c]
    ELSE c

\* strings.ToUpper
ToUpper(s) == [i \in 1..Len(s) |-> UpperChar(s[i])]

\* s has sep at position i
HasAt(s, sep, i) ==
    /\ i >= 1
    /\ i + Len(sep) - 1 <= Len(s)
    /\ \A k \in 1..Len(sep) : s[i + k - 1] = sep[k]

\* faulty variant: strings.LastIndex, the last occurrence of sep
IndexLast(s, sep) ==
    IF \E i \in 1..(Len(s) + 1) : HasAt(s, sep, i)
    THEN CHOOSE i \in 1..(Len(s) + 1) :
            /\ HasAt(s, sep, i)
            /\ \A j \in (i + 1)..(Len(s) + 1) : ~HasAt(s, sep, j)
    ELSE 0

\* strings.Index, 1-based; 0 when sep does not occur
Index(s, sep) ==
    IF \E i \in 1..(Len(s) + 1) : HasAt(s, sep, i)
    THEN CHOOSE i \in 1..(Len(s) + 1) :
            /\ HasAt(s, sep, i)
            /\ \A j \in 1..(i - 1) : ~HasAt(s, sep, j)
    ELSE 0

\* before part of strings.Cut(s, sep)
CutBefore(s, sep) ==
    IF Index(s, sep) = 0 THEN s ELSE SubSeq(s, 1, Index(s, sep) - 1)

\* slices.Contains
Contains(list, v) == \E i \in 1..Len(list) : list[i] = v

\* the score separator " (" of addUnique
ScoreSep == <<" ", "(">>

\* the normal form addUnique stores: cut the score, upper-case
Normalize(str) == ToUpper(CutBefore(str, ScoreSep))

\* faulty variant: the list is searched for the raw string, not for its
\* normal form
addUniqueRaw(list, str) ==
    LET tStr == Normalize(str)
    IN  IF \E i \in 1..Len(list) : list[i] = str
        THEN list
        ELSE Append(list, tStr)

addUnique(list, str) ==
    LET tStr == Normalize(str)
    IN  IF \E i \in 1..Len(list) : ToUpper(list[i]) = tStr
        THEN list
        ELSE Append(list, tStr)

----------------------------------------------------------------------------
(* regular expressions of the divisions table.  Every pattern of the table *)
(* is an alternation of  LITERAL.*[CLASS] ; a pattern is the sequence of   *)
(* its alternatives.  The empty pattern "" is one alternative with an      *)
(* empty literal and nothing after it.                                     *)

Alt(lit, cls) == [lit |-> lit, star |-> TRUE, cls |-> cls]

EmptyRe == << [lit |-> <<>>, star |-> FALSE, cls |-> {}] >>

\* alternative a matches somewhere in s (unanchored; . is any character
\* but a newline)
AltMatches(a, s) ==
    \E i \in 1..(Len(s) + 1) :
        /\ HasAt(s, a.lit, i)
        /\ a.star =>
              \E j \in (i + Len(a.lit))..Len(s) :
                  /\ s[j] \in a.cls
                  /\ \A k \in (i + Len(a.lit))..(j - 1) : s[k] # "\n"

\* regexp.MatchString / Regexp.MatchString
MatchString(re, s) == \E n \in 1..Len(re) : AltMatches(re[n], s)

U9 == <<"U", "9">>
U11 == <<"U", "1", "1">>
U13 == <<"U", "1", "3">>
U15 == <<"U", "1", "5">>
U18 == <<"U", "1", "8">>

Label(age, tier) == age \o <<" ", tier>>

Div(age, tier, swapsRegex) ==
    [name |-> Label(age, tier),
     nameRegex |-> << Alt(age, {tier}) >>,
     swapsRegex |-> swapsRegex]

swapsU9 == << Alt(U9, {"A", "B", "C"}) >>
swapsU11 == << Alt(U11, {"A", "B", "C"}), Alt(U13, {"B", "C"}) >>
\* faulty variant: the pattern follows the description "U13 A -> U15 A-B"
\* and leaves U13 A itself out
swapsU13ANoSelf == << Alt(U15, {"A", "B"}) >>

\* faulty variant: U13 A also swaps with its siblings U13 B-C
swapsU13ASiblings == << Alt(U13, {"A", "B", "C"}), Alt(U15, {"A", "B"}) >>

\* faulty variant: of U15 only B is taken
swapsU13ANoU15A == << Alt(U13, {"A"}), Alt(U15, {"B"}) >>

swapsU13A == << Alt(U13, {"A"}), Alt(U15, {"A", "B"}) >>
swapsU13BC == << Alt(U13, {"B", "C"}), Alt(U11, {"A", "B", "C"}) >>
swapsU15 == << Alt(U13, {"A"}), Alt(U15, {"A", "B"}), Alt(U18, {"A", "B"}) >>
\* faulty variant: U18 swaps among itself only
swapsU18NoU15 == << Alt(U18, {"A", "B"}) >>

swapsU18 == << Alt(U15, {"A", "B"}), Alt(U18, {"A", "B"}) >>

divisions ==
    << Div(U9, "A", swapsU9), Div(U9, "B", swapsU9), Div(U9, "C", swapsU9),
       Div(U11, "A", swapsU11), Div(U11, "B", swapsU11), Div(U11, "C", swapsU11),
       Div(U13, "A", swapsU13A), Div(U13, "B", swapsU13BC), Div(U13, "C", swapsU13BC),
       Div(U15, "A", swapsU15), Div(U15, "B", swapsU15),
       Div(U18, "A", swapsU18), Div(U18, "B", swapsU18) >>

\* var division division_type
ZeroDivision == [name |-> <<>>, nameRegex |-> EmptyRe, swapsRegex |-> EmptyRe]

\* for _, division = range divisions { if matched { break } }: the first
\* entry whose nameRegex matches, the last entry when none does
SelectDivision(label) ==
    IF \E n \in 1..Len(divisions) : MatchString(divisions[n].nameRegex, label)
    THEN divisions[CHOOSE n \in 1..Len(divisions) :
            /\ MatchString(divisions[n].nameRegex, label)
            /\ \A m \in 1..(n - 1) : ~MatchString(divisions[m].nameRegex, label)]
    ELSE divisions[Len(divisions)]

----------------------------------------------------------------------------
(* time.Parse(DATE_FORMAT, s) with DATE_FORMAT = "2006-01-02"              *)

Digits == <<"0","1","2","3","4","5","6","7","8","9">>

IsDigit(c) == \E i \in 1..10 : Digits[i] = c

DigitVal(c) == (CHOOSE i \in 1..10 : Digits[i] = c) - 1

IsLeap(y) == (y % 4 = 0 /\ y % 100 # 0) \/ y % 400 = 0

DaysIn(y, m) ==
    IF m = 2 THEN (IF IsLeap(y) THEN 29 ELSE 28)
    ELSE IF m \in {4, 6, 9, 11} THEN 30 ELSE 31

\* days from 1970-01-01 to y-m-d
DaysFromCivil(y, m, d) ==
    LET yy  == IF m <= 2 THEN y - 1 ELSE y
        era == yy \div 400
        yoe == yy - era * 400
        mp  == (m + 9) % 12
        doy == (153 * mp + 2) \div 5 + d - 1
        doe == yoe * 365 + yoe \div 4 - yoe \div 100 + doy
    IN  era * 146097 + doe - 719468

TicksPerDay == 2

WellFormedDate(s) ==
    /\ Len(s) = 10
    /\ \A i \in {1, 2, 3, 4, 6, 7, 9, 10} : IsDigit(s[i])
    /\ s[5] = "-"
    /\ s[8] = "-"

YearOf(s) == 1000 * DigitVal(s[1]) + 100 * DigitVal(s[2])
             + 10 * DigitVal(s[3]) + DigitVal(s[4])
MonthOf(s) == 10 * DigitVal(s[6]) + DigitVal(s[7])
DayOf(s) == 10 * DigitVal(s[9]) + DigitVal(s[10])

\* err == nil
ParseOk(s) ==
    /\ WellFormedDate(s)
    /\ MonthOf(s) \in 1..12
    /\ DayOf(s) \in 1..DaysIn(YearOf(s), MonthOf(s))

\* the instant parsed: midnight UTC of the date
ParseTime(s) == DaysFromCivil(YearOf(s), MonthOf(s), DayOf(s)) * TicksPerDay

\* Time.Before
Before(t, u) == t < u

----------------------------------------------------------------------------
(* the steps of main                                                       *)

\* var swap swap_t, after fmt.Scanln(&swap.gameId)
ZeroSwap(id) ==
    [date |-> <<>>, gameId |-> id, home |-> <<>>, away |-> <<>>,
     excludeTeams |-> <<>>, excludeDates |-> <<>>, games |-> <<>>]

\* csv.Reader.ReadAll with FieldsPerRecord = 0: every record must have
\* the number of fields of the first record
FieldCountOk(records) ==
    \A i \in 1..Len(records) : Len(records[i]) = Len(records[1])

\* swap.games, err = reader.ReadAll(); if err != nil { log.Fatal(err) }
ReadAll ==
    /\ pc = "read"
    /\ IF FieldCountOk(schedule)
       THEN /\ swap' = [swap EXCEPT !.games = schedule]
            /\ loaded' = schedule
            /\ pc' = "find"
       ELSE /\ swap' = swap
            /\ loaded' = loaded
            /\ pc' = "fatal"
    /\ UNCHANGED <<schedule, cutOffDate, division, output, arg, res>>

\* faulty variant: the last game carrying the id is taken
LastWithId(games, gameId) ==
    IF \E i \in 1..Len(games) : Field(games[i], GAMEID) = gameId
    THEN CHOOSE i \in 1..Len(games) :
            /\ Field(games[i], GAMEID) = gameId
            /\ \A j \in (i + 1)..Len(games) : Field(games[j], GAMEID) # gameId
    ELSE 0

\* index of the first game whose id is gameId, 0 when there is none
FirstWithId(games, gameId) ==
    IF \E i \in 1..Len(games) : Field(games[i], GAMEID) = gameId
    THEN CHOOSE i \in 1..Len(games) :
            /\ Field(games[i], GAMEID) = gameId
            /\ \A j \in 1..(i - 1) : Field(games[j], GAMEID) # gameId
    ELSE 0

\* faulty variant: the target's date is not parsed, so a malformed date
\* is not fatal and the cut-off check is skipped for it
FindGameNoParse ==
    /\ pc = "find"
    /\ LET line == FirstWithId(swap.games, swap.gameId)
       IN  IF line = 0
           THEN /\ swap' = swap
                /\ division' = division
                /\ pc' = "filter"
           ELSE LET game == swap.games[line]
                IN  /\ swap' = [swap EXCEPT !.date = Field(game, DATE),
                                            !.home = Field(game, HOMETEAM),
                                            !.away = Field(game, AWAYTEAM)]
                    /\ division' = SelectDivision(Field(game, DIVISION))
                    /\ pc' = IF ~ParseOk(Field(game, DATE)) THEN "filter"
                             ELSE IF Before(ParseTime(Field(game, DATE)), cutOffDate)
                                  THEN "return"
                                  ELSE "filter"
    /\ UNCHANGED <<schedule, cutOffDate, output, arg, res, loaded>>

\* for line, game := range swap.games { if game[GAMEID] == swap.gameId {...} }
FindGame ==
    /\ pc = "find"
    /\ LET line == FirstWithId(swap.games, swap.gameId)
       IN  IF line = 0
           THEN /\ swap' = swap
                /\ division' = division
                /\ pc' = "filter"
           ELSE LET game == swap.games[line]
                IN  /\ swap' = [swap EXCEPT !.date = Field(game, DATE),
                                            !.home = Field(game, HOMETEAM),
                                            !.away = Field(game, AWAYTEAM)]
                    /\ division' = SelectDivision(Field(game, DIVISION))
                    /\ pc' = IF ~ParseOk(Field(game, DATE)) THEN "fatal"
                             ELSE IF Before(ParseTime(Field(game, DATE)), cutOffDate)
                                  THEN "return"
                                  ELSE "filter"
    /\ UNCHANGED <<schedule, cutOffDate, output, arg, res, loaded>>

\* what slices.DeleteFunc leaves in the array of the slice it is given:
\* the kept games moved to the front, the elements behind them zeroed
\* (clear(s[len(kept):]), Go 1.22); the slice has always been the front
\* of the array, whose farther elements are zero already
DeleteFuncArray(array, kept) ==
    kept \o [i \in 1..(Len(array) - Len(kept)) |-> <<>>]

\* faulty variant: a game whose date does not parse is not deleted for it
DeleteUnlessUnparsed(game, swappableRe, cutOff) ==
    IF /\ ParseOk(Field(game, DATE))
       /\ Before(ParseTime(Field(game, DATE)), cutOff) THEN TRUE
    ELSE IF ~MatchString(swappableRe, Field(game, DIVISION)) THEN TRUE
    ELSE FALSE

\* the func of the first slices.DeleteFunc: true when the game is deleted
DeletePastOrWrongDivision(game, swappableRe, cutOff) ==
    IF ~ParseOk(Field(game, DATE)) THEN TRUE
    ELSE IF Before(ParseTime(Field(game, DATE)), cutOff) THEN TRUE
    ELSE IF ~MatchString(swappableRe, Field(game, DIVISION)) THEN TRUE
    ELSE FALSE

\* faulty variant: the target game is deleted along with the others
CutoffFilterDropsTarget ==
    /\ pc = "filter"
    /\ LET kept == SelectSeq(swap.games,
                       LAMBDA game :
                          /\ Field(game, GAMEID) # swap.gameId
                          /\ ~DeletePastOrWrongDivision(
                                  game, division.swapsRegex, cutOffDate))
       IN  /\ swap' = [swap EXCEPT !.games = kept]
           /\ loaded' = DeleteFuncArray(loaded, kept)
    /\ pc' = "exclude"
    /\ UNCHANGED <<schedule, cutOffDate, division, output, arg, res>>

\* swappableRe := regexp.Compile(division.swapsRegex);
\* swap.games = slices.DeleteFunc(swap.games, ...)
CutoffFilter ==
    /\ pc = "filter"
    /\ LET kept == SelectSeq(swap.games,
                       LAMBDA game : ~DeletePastOrWrongDivision(
                                          game, division.swapsRegex, cutOffDate))
       IN  /\ swap' = [swap EXCEPT !.games = kept]
           /\ loaded' = DeleteFuncArray(loaded, kept)
    /\ pc' = "exclude"
    /\ UNCHANGED <<schedule, cutOffDate, division, output, arg, res>>

\* the excludeDates / excludeTeams loop over games[1..n], left to right
RECURSIVE ExcludeDatesUpTo(_, _, _, _)
ExcludeDatesUpTo(games, n, home, away) ==
    IF n = 0 THEN <<>>
    ELSE LET rest == ExcludeDatesUpTo(games, n - 1, home, away)
             game == games[n]
         IN  IF Contains(game, home) \/ Contains(game, away)
             THEN Append(rest, Field(game, DATE))
             ELSE rest

RECURSIVE ExcludeTeamsUpTo(_, _, _)
ExcludeTeamsUpTo(games, n, date) ==
    IF n = 0 THEN <<>>
    ELSE LET rest == ExcludeTeamsUpTo(games, n - 1, date)
             game == games[n]
         IN  IF date = Field(game, DATE)
             THEN addUnique(addUnique(rest, Field(game, HOMETEAM)),
                            Field(game, AWAYTEAM))
             ELSE rest

\* faulty variant: the loop passes over the target game itself
BuildExcludesSkipTarget ==
    /\ pc = "exclude"
    /\ LET others == SelectSeq(swap.games,
                         LAMBDA game : Field(game, GAMEID) # swap.gameId)
       IN  swap' = [swap EXCEPT
                      !.excludeDates = ExcludeDatesUpTo(others, Len(others),
                                                        swap.home, swap.away),
                      !.excludeTeams = ExcludeTeamsUpTo(others, Len(others),
                                                        swap.date)]
    /\ pc' = "final"
    /\ UNCHANGED <<schedule, cutOffDate, division, output, arg, res, loaded>>

\* for _, game := range swap.games { ... append / addUnique ... }
BuildExcludes ==
    /\ pc = "exclude"
    /\ swap' = [swap EXCEPT
                  !.excludeDates = ExcludeDatesUpTo(swap.games, Len(swap.games),
                                                    swap.home, swap.away),
                  !.excludeTeams = ExcludeTeamsUpTo(swap.games, Len(swap.games),
                                                    swap.date)]
    /\ pc' = "final"
    /\ UNCHANGED <<schedule, cutOffDate, division, output, arg, res, loaded>>

\* the func of the second slices.DeleteFunc
DeleteExcluded(game, excludeDates, excludeTeams) ==
    IF Contains(excludeDates, Field(game, DATE)) THEN TRUE
    ELSE IF Contains(excludeTeams, Field(game, HOMETEAM)) THEN TRUE
    ELSE IF Contains(excludeTeams, Field(game, AWAYTEAM)) THEN TRUE
    ELSE FALSE

\* faulty variant: the games are moved to the front but the slice keeps its
\* length, so the old tail stays behind the kept games
FinalFilterStale ==
    /\ pc = "final"
    /\ LET kept == SelectSeq(swap.games,
                       LAMBDA game : ~DeleteExcluded(game, swap.excludeDates,
                                                     swap.excludeTeams))
       IN  /\ swap' = [swap EXCEPT !.games =
                      kept \o SubSeq(swap.games, Len(kept) + 1, Len(swap.games))]
           /\ loaded' = DeleteFuncArray(loaded, kept)
    /\ pc' = "write"
    /\ UNCHANGED <<schedule, cutOffDate, division, output, arg, res>>

\* swap.games = slices.DeleteFunc(swap.games, ...)
FinalFilter ==
    /\ pc = "final"
    /\ LET kept == SelectSeq(swap.games,
                       LAMBDA game : ~DeleteExcluded(game, swap.excludeDates,
                                                     swap.excludeTeams))
       IN  /\ swap' = [swap EXCEPT !.games = kept]
           /\ loaded' = DeleteFuncArray(loaded, kept)
    /\ pc' = "write"
    /\ UNCHANGED <<schedule, cutOffDate, division, output, arg, res>>

\* for _, g := range swap.games { csvFile.WriteString(strings.Join(g, ",")) }
WriteResults ==
    /\ pc = "write"
    /\ output' = swap.games
    /\ pc' = "done"
    /\ UNCHANGED <<schedule, cutOffDate, swap, division, arg, res, loaded>>

----------------------------------------------------------------------------
(* inputs                                                                  *)

MaxGames == 3

sA == <<"A">>
sB == <<"B">>
sC == <<"C">>
sD == <<"D">>
sE == <<"E">>
sF == <<"F">>
sH == <<"H">>
sK == <<"K">>
sEscore == <<"e", " ", "(", "3", ")">>
sDlower == <<"d">>

d0310 == <<"2", "0", "2", "5", "-", "0", "3", "-", "1", "0">>
d0312 == <<"2", "0", "2", "5", "-", "0", "3", "-", "1", "2">>
dEmpty == <<>>

tm == <<"1", "9", ":", "0", "0">>
rink == <<"R">>

idG1 == <<"G", "1">>
idG2 == <<"G", "2">>
idG3 == <<"G", "3">>
idG4 == <<"G", "4">>
idG5 == <<"G", "5">>
idG6 == <<"G", "6">>
idG7 == <<"G", "7">>
idG8 == <<"G", "8">>
idG9 == <<"G", "9">>
idNone == <<"G", "X">>

\* the header record downloadSchedule writes
Header ==
    << <<"D", "i", "v", "i", "s", "i", "o", "n">>,
       <<"G", "a", "m", "e", "I", "D">>,
       <<"D", "a", "t", "e">>,
       <<"T", "i", "m", "e">>,
       <<"A", "r", "e", "n", "a">>,
       <<"H", "o", "m", "e", " ", "T", "e", "a", "m">>,
       <<"A", "w", "a", "y", " ", "T", "e", "a", "m">> >>

Game(div, id, date, home, away) == <<div, id, date, tm, rink, home, away>>

GamePool ==
    { Header,
      Game(Label(U13, "A"), idG1, d0310, sA, sB),
      Game(Label(U15, "A"), idG2, d0312, sC, sD),
      Game(Label(U15, "B"), idG3, d0310, sE, sF),
      \* the target's home team in a division U13 A cannot swap with
      Game(Label(U9, "A"), idG4, d0312, sA, sH),
      \* another team of G2 busy on 03-10 in such a division
      Game(Label(U9, "B"), idG5, d0310, sC, sK),
      \* raw names with a score and in lower case
      Game(Label(U15, "A"), idG6, d0312, sEscore, sDlower),
      \* a record whose date does not parse
      Game(Label(U13, "A"), idG7, dEmpty, sA, sB),
      \* a division no nameRegex matches
      Game(<<"U", "7", " ", "A">>, idG8, d0312, sH, sK),
      \* a division two nameRegex match
      Game(<<"U", "1", "3", " ", "A", "B">>, idG9, d0312, sH, sK) }

GameIds == {idG1, idG2, idG3, idG7, idG8, idG9, idNone}

Schedules == UNION { [1..n -> GamePool] : n \in 0..MaxGames }

CutOffDays == {<<"2", "0", "2", "5", "-", "0", "3", "-", "0", "1">>, d0310}

\* time.Now().AddDate(0, 0, 10): any time of day
CutOffDates ==
    { ParseTime(d) + tod : d \in CutOffDays, tod \in 0..(TicksPerDay - 1) }

Init ==
    /\ schedule \in Schedules
    /\ cutOffDate \in CutOffDates
    /\ \E id \in GameIds : swap = ZeroSwap(id)
    /\ division = ZeroDivision
    /\ output = <<>>
    /\ pc = "read"
    /\ arg = <<>>
    /\ res = <<>>
    /\ loaded = <<>>

Next ==
    \/ ReadAll
    \/ FindGame
    \/ CutoffFilter
    \/ BuildExcludes
    \/ FinalFilter
    \/ WriteResults

Spec == Init /\ [][Next]_vars

----------------------------------------------------------------------------
(* the division table on its own: one entry applied to one division label  *)

CanonicalLabels == { divisions[n].name : n \in 1..Len(divisions) }

InitTable ==
    /\ schedule = <<>>
    /\ cutOffDate = 0
    /\ swap = ZeroSwap(<<>>)
    /\ division = ZeroDivision
    /\ output = <<>>
    /\ pc = "lookup"
    /\ arg \in [rule : 1..Len(divisions), label : CanonicalLabels]
    /\ res = <<>>
    /\ loaded = <<>>

\* regexp.MatchString(division.nameRegex, game[DIVISION]) and
\* swappableRe.MatchString(game[DIVISION]) for division = divisions[rule]
LookUp ==
    /\ pc = "lookup"
    /\ res' = [member |-> MatchString(divisions[arg.rule].nameRegex, arg.label),
               swappable |-> MatchString(divisions[arg.rule].swapsRegex, arg.label)]
    /\ pc' = "looked"
    /\ UNCHANGED <<schedule, cutOffDate, swap, division, output, arg, loaded>>

SpecTable == InitTable /\ [][LookUp]_vars

----------------------------------------------------------------------------
(* notions the properties are stated in                                    *)

\* line of the target game in the schedule file, 0 when the id is unknown
TargetLine == FirstWithId(schedule, swap.gameId)

Found == TargetLine # 0

TargetGame == schedule[TargetLine]

\* registry entries whose membership predicate accepts the label
Memberships(label) ==
    { n \in 1..Len(divisions) : MatchString(divisions[n].nameRegex, label) }

\* the target is found, its date parses and exactly one entry claims it
Resolvable ==
    /\ Found
    /\ ParseOk(Field(TargetGame, DATE))
    /\ Cardinality(Memberships(Field(TargetGame, DIVISION))) = 1

\* calendar day of a parsed date and of the cut-off instant
DayNumber(date) == ParseTime(date) \div TicksPerDay

CutOffDay == cutOffDate \div TicksPerDay

\* main is past the first DeleteFunc / past the exclusion loop
PastCutoffFilter == pc \in {"exclude", "final", "write", "done"}

PastExcludes == pc \in {"final", "write", "done"}

\* the record names the team as home or away team, by normalized name
Plays(game, team) ==
    \/ Normalize(Field(game, HOMETEAM)) = Normalize(team)
    \/ Normalize(Field(game, AWAYTEAM)) = Normalize(team)

----------------------------------------------------------------------------
(* properties                                                              *)

\* C1: when resolution succeeds, every returned candidate has a date that
\* is not in excludeDates and normalized home and away team names that are
\* not in excludeTeams, also when the raw name is in lower case or carries
\* a score.
C1_CandidatesAvoidExclusions ==
    (pc = "done" /\ Resolvable) =>
        \A k \in 1..Len(output) :
            /\ ~Contains(swap.excludeDates, Field(output[k], DATE))
            /\ ~Contains(swap.excludeTeams, Normalize(Field(output[k], HOMETEAM)))
            /\ ~Contains(swap.excludeTeams, Normalize(Field(output[k], AWAYTEAM)))

\* C2: excludeDates is computed from the full schedule: the date of every
\* game of the schedule that the target's home or away team plays in a
\* division outside the compatible set is in excludeDates, and no candidate
\* with that date is returned.
C2_ExcludeDatesFromFullSchedule ==
    (PastExcludes /\ Resolvable) =>
        \A i \in 1..Len(schedule) :
            ( /\ ParseOk(Field(schedule[i], DATE))
              /\ Plays(schedule[i], swap.home) \/ Plays(schedule[i], swap.away)
              /\ ~MatchString(division.swapsRegex, Field(schedule[i], DIVISION)) )
            => /\ Contains(swap.excludeDates, Field(schedule[i], DATE))
               /\ \A k \in 1..Len(output) :
                     Field(output[k], DATE) # Field(schedule[i], DATE)

\* C3: excludeTeams holds the normalized home and away team of every game
\* of the full schedule played on the target's date, whatever its division,
\* and no returned candidate involves such a team.
C3_ExcludeTeamsFromFullSchedule ==
    (PastExcludes /\ Resolvable) =>
        \A i \in 1..Len(schedule) :
            Field(schedule[i], DATE) = swap.date =>
                /\ Contains(swap.excludeTeams, Normalize(Field(schedule[i], HOMETEAM)))
                /\ Contains(swap.excludeTeams, Normalize(Field(schedule[i], AWAYTEAM)))
                /\ \A k \in 1..Len(output) :
                      /\ ~Plays(output[k], Field(schedule[i], HOMETEAM))
                      /\ ~Plays(output[k], Field(schedule[i], AWAYTEAM))

\* C4: a target game id that no record of the schedule carries ends the
\* resolution with an error: no exclusion sets are computed and no
\* candidates are reported.
C4_UnknownGameReportsNothing ==
    ~Found =>
        /\ swap.excludeDates = <<>>
        /\ swap.excludeTeams = <<>>
        /\ output = <<>>

\* C5: when the target is found and its date is on or before the cut-off
\* date, resolution stops early: the filters never run and nothing is
\* reported.
C5_PastCutoffStopsEarly ==
    ( /\ Found
      /\ ParseOk(Field(TargetGame, DATE))
      /\ DayNumber(Field(TargetGame, DATE)) <= CutOffDay )
    => /\ pc \in {"read", "find", "return"}
       /\ output = <<>>

\* C6: when no registry entry or more than one registry entry accepts the
\* target's division field, resolution fails and produces no candidates.
C6_AmbiguousDivisionFails ==
    ( /\ Found
      /\ Cardinality(Memberships(Field(TargetGame, DIVISION))) # 1 )
    => /\ ~PastCutoffFilter
       /\ output = <<>>

\* C7: a target record whose date does not parse ends the run with the
\* fatal error before any filter runs and nothing is reported; the fatal
\* date error comes from the target record only, never from another record
\* with an unparsable date.
C7_MalformedTargetDateIsFatal ==
    /\ ( /\ Found
         /\ ~ParseOk(Field(TargetGame, DATE))
         /\ pc \notin {"read", "find"} )
       => (pc = "fatal" /\ output = <<>>)
    /\ (pc = "fatal" /\ FieldCountOk(schedule))
       => (Found /\ ~ParseOk(Field(TargetGame, DATE)))

\* C7 case: the run died on the target's date after passing over an
\* earlier record whose date does not parse either
C7_Witness ==
    /\ pc = "fatal"
    /\ TargetLine > 1
    /\ ~ParseOk(Field(TargetGame, DATE))
    /\ ~ParseOk(Field(schedule[1], DATE))

\* C8: the cut-off is exclusive: every game left after the cut-off filter,
\* and so every candidate, is dated strictly after the cut-off date.
C8_CutoffExclusive ==
    (PastCutoffFilter /\ Resolvable) =>
        \A i \in 1..Len(swap.games) :
            DayNumber(Field(swap.games[i], DATE)) > CutOffDay

\* C9: every returned candidate's division is accepted by the compatibility
\* predicate of the registry entry the target's division belongs to.
C9_CandidatesCompatible ==
    Found =>
        \A k \in 1..Len(output) :
            \E n \in Memberships(Field(TargetGame, DIVISION)) :
                MatchString(divisions[n].swapsRegex, Field(output[k], DIVISION))

\* the policy table of the league: division -> divisions it may swap with
U9s == {Label(U9, "A"), Label(U9, "B"), Label(U9, "C")}
U11s == {Label(U11, "A"), Label(U11, "B"), Label(U11, "C")}
U13BCs == {Label(U13, "B"), Label(U13, "C")}
U15s == {Label(U15, "A"), Label(U15, "B")}
U18s == {Label(U18, "A"), Label(U18, "B")}

Policy(name) ==
    IF name \in U9s THEN U9s
    ELSE IF name \in U11s THEN U11s \cup U13BCs
    ELSE IF name = Label(U13, "A") THEN {Label(U13, "A")} \cup U15s
    ELSE IF name \in U13BCs THEN U13BCs \cup U11s
    ELSE IF name \in U15s THEN {Label(U13, "A")} \cup U15s \cup U18s
    ELSE U15s \cup U18s

\* C10: for each of the 13 registry divisions, the canonical labels its
\* compatibility predicate accepts are exactly those of the policy table.
C10_PolicyTable ==
    pc = "looked" =>
        (res.swappable <=> arg.label \in Policy(divisions[arg.rule].name))

\* C10 case: U13 A looked up against its sibling U13 B, which it refuses
C10_Witness ==
    /\ pc = "looked"
    /\ divisions[arg.rule].name = Label(U13, "A")
    /\ arg.label = Label(U13, "B")
    /\ res.swappable = FALSE

----------------------------------------------------------------------------
(* the division table applied to labels as schedules spell them            *)

U13GirlsB1 == <<"U", "1", "3", " ", "G", "i", "r", "l", "s", " ", "B", "1">>
U13BoysA == <<"U", "1", "3", " ", "B", "o", "y", "s", " ", "A">>

ScheduleLabels == CanonicalLabels \cup {U13GirlsB1, U13BoysA}

InitLabels ==
    /\ schedule = <<>>
    /\ cutOffDate = 0
    /\ swap = ZeroSwap(<<>>)
    /\ division = ZeroDivision
    /\ output = <<>>
    /\ pc = "lookup"
    /\ arg \in [rule : 1..Len(divisions), label : ScheduleLabels]
    /\ res = <<>>
    /\ loaded = <<>>

SpecLabels == InitLabels /\ [][LookUp]_vars

\* C11: compatibility is reflexive: a label that the membership predicate
\* of a registry entry accepts is accepted by the compatibility predicate
\* of the same entry.
C11_CompatibilityReflexive ==
    pc = "looked" => (res.member => res.swappable)

\* C11 case: the U13 B entry looked up against a label of its own division
C11_Witness ==
    /\ pc = "looked"
    /\ arg.label = U13GirlsB1
    /\ divisions[arg.rule].name = Label(U13, "B")
    /\ res.member
    /\ res.swappable

\* C12: the registry is exhaustive and mutually exclusive: every label a
\* schedule carries is accepted by the membership predicate of exactly one
\* entry.
C12_ExactlyOneMembership ==
    pc = "looked" =>
        /\ Cardinality(Memberships(arg.label)) = 1
        /\ res.member => Memberships(arg.label) = {arg.rule}

----------------------------------------------------------------------------
(* the normal form of team names on its own                                *)

MaxNameLen == 4

NameChars == {"a", "B", " ", "(", "e_acute"}

RawNames == UNION { [1..n -> NameChars] : n \in 0..MaxNameLen }

InitNames ==
    /\ schedule = <<>>
    /\ cutOffDate = 0
    /\ swap = ZeroSwap(<<>>)
    /\ division = ZeroDivision
    /\ output = <<>>
    /\ pc = "raw"
    /\ arg \in RawNames
    /\ res = <<>>
    /\ loaded = <<>>

\* before, _, _ := strings.Cut(str, " ("); tStr := strings.ToUpper(before),
\* for a raw name and again for the entry stored for it
NormalizeName ==
    /\ pc = "raw"
    /\ res' = [once |-> Normalize(arg), twice |-> Normalize(Normalize(arg))]
    /\ pc' = "normalized"
    /\ UNCHANGED <<schedule, cutOffDate, swap, division, output, arg, loaded>>

SpecNames == InitNames /\ [][NormalizeName]_vars

\* C13: normalization is idempotent: normalizing a normalized name gives
\* the same name.
C13_NormalizeIdempotent ==
    pc = "normalized" => res.twice = res.once

\* C13 case: a name in lower case with a score, which normalization changes
C13_Witness ==
    /\ pc = "normalized"
    /\ Index(arg, ScoreSep) > 1
    /\ ToUpper(arg) # arg
    /\ res.once # arg
    /\ res.twice = res.once

\* C14: two raw names that differ only by a score or by letter case have
\* the same normal form and count as the same team wherever the resolver
\* compares teams: a game of the candidate universe that names a target
\* team has its date in excludeDates, and no returned candidate names a
\* team of excludeTeams.
C14_SameTeamWhateverSpelling ==
    /\ Normalize(sEscore) = Normalize(sE)
    /\ Normalize(sDlower) = Normalize(sD)
    /\ (Resolvable /\ pc = "final") =>
          \A i \in 1..Len(swap.games) :
              (Plays(swap.games[i], swap.home) \/ Plays(swap.games[i], swap.away))
              => Contains(swap.excludeDates, Field(swap.games[i], DATE))
    /\ (Resolvable /\ pc = "done") =>
          \A k \in 1..Len(output) :
              \A n \in 1..Len(swap.excludeTeams) :
                  ~Plays(output[k], swap.excludeTeams[n])

----------------------------------------------------------------------------
(* addUnique on its own: a list built by successive calls; arg keeps the   *)
(* raw strings passed so far, res is the list                              *)

MaxCalls == 3

RawTeams ==
    { sA, <<"a">>, <<"A", " ", "(", "1", ")">>, <<"a", " ", "(", "2", ")">>,
      sB, <<"b">>, sE, sEscore, <<>> }

InitUnique ==
    /\ schedule = <<>>
    /\ cutOffDate = 0
    /\ swap = ZeroSwap(<<>>)
    /\ division = ZeroDivision
    /\ output = <<>>
    /\ pc = "unique"
    /\ arg = <<>>
    /\ res = <<>>
    /\ loaded = <<>>

\* list = addUnique(list, str)
AddUnique ==
    /\ pc = "unique"
    /\ Len(arg) < MaxCalls
    /\ \E str \in RawTeams :
          /\ arg' = Append(arg, str)
          /\ res' = addUnique(res, str)
    /\ UNCHANGED <<schedule, cutOffDate, swap, division, output, pc, loaded>>

SpecUnique == InitUnique /\ [][AddUnique]_vars

\* the normal forms of raws[1..n], each at its first occurrence only
RECURSIVE FirstSeenUpTo(_, _)
FirstSeenUpTo(raws, n) ==
    IF n = 0 THEN <<>>
    ELSE IF \E j \in 1..(n - 1) : Normalize(raws[j]) = Normalize(raws[n])
         THEN FirstSeenUpTo(raws, n - 1)
         ELSE Append(FirstSeenUpTo(raws, n - 1), Normalize(raws[n]))

\* no two entries equal ignoring case, every entry in normal form, entries
\* in first-seen order
UniqueListOk ==
    /\ \A i, j \in 1..Len(res) : i # j => ToUpper(res[i]) # ToUpper(res[j])
    /\ \A i \in 1..Len(res) : Normalize(res[i]) = res[i]
    /\ res = FirstSeenUpTo(arg, Len(arg))

\* a call returns the list unchanged when an entry equal ignoring case to
\* the normal form exists, and appends exactly the normal form otherwise
UniqueCallOk ==
    LET str == arg'[Len(arg')]
    IN  IF \E i \in 1..Len(res) : ToUpper(res[i]) = ToUpper(Normalize(str))
        THEN res' = res
        ELSE res' = Append(res, Normalize(str))

\* C15: after any sequence of addUnique calls from the empty list, the list
\* has no two entries equal ignoring case, every entry is normalized, the
\* entries are in first-seen order, and each call left the list unchanged
\* or appended exactly normalize(raw).
C15_AddUniqueList ==
    [](pc = "unique" => UniqueListOk) /\ [][UniqueCallOk]_vars

\* C15 case: three calls, the second a respelling of the first team
C15_Witness ==
    /\ pc = "unique"
    /\ Len(arg) = 3
    /\ arg[1] = <<"a", " ", "(", "2", ")">>
    /\ arg[2] = sA
    /\ arg[3] = <<"b">>
    /\ res = <<sA, sB>>

----------------------------------------------------------------------------
(* the result against the schedule read                                    *)

\* a[i..] can be picked out of b[j..] from left to right, each record of b
\* used at most once
RECURSIVE IsSubseqFrom(_, _, _, _)
IsSubseqFrom(a, i, b, j) ==
    IF i > Len(a) THEN TRUE
    ELSE IF j > Len(b) THEN FALSE
    ELSE IF a[i] = b[j] THEN IsSubseqFrom(a, i + 1, b, j + 1)
    ELSE IsSubseqFrom(a, i, b, j + 1)

IsSubseq(a, b) == IsSubseqFrom(a, 1, b, 1)

\* C16: the candidates written are an order-preserving subsequence of the
\* schedule: records of the schedule, none more often than there, in the
\* schedule's order.
C16_OutputIsSubsequence ==
    pc = "done" => IsSubseq(output, schedule)

\* C16 case: two different candidates are returned from three records
C16_Witness ==
    /\ pc = "done"
    /\ Found
    /\ Resolvable
    /\ Len(schedule) = 3
    /\ Len(output) = 2
    /\ output[1] # output[2]

----------------------------------------------------------------------------
(* the slice read against the filtering                                    *)

\* C17: filtering never mutates its source: after each filtering stage and
\* after resolution completes, the loaded schedule sequence holds the same
\* records in the same order as when it was loaded.
C17_LoadedScheduleUntouched ==
    (Resolvable /\ pc \in {"exclude", "final", "write", "done"})
        => loaded = schedule

----------------------------------------------------------------------------
(* one run of main as a function of its inputs                             *)

\* what a run leaves: where main stopped, the games written and the two
\* exclusion lists
Outcome ==
    [pc |-> pc, output |-> output,
     excludeDates |-> swap.excludeDates, excludeTeams |-> swap.excludeTeams]

Stopped(at) ==
    [pc |-> at, output |-> <<>>, excludeDates |-> <<>>, excludeTeams |-> <<>>]

\* main on the records s, the game id typed in and the cut-off instant c
Resolve(s, id, c) ==
    LET line == FirstWithId(s, id)
        date == IF line = 0 THEN <<>> ELSE Field(s[line], DATE)
        home == IF line = 0 THEN <<>> ELSE Field(s[line], HOMETEAM)
        away == IF line = 0 THEN <<>> ELSE Field(s[line], AWAYTEAM)
        div  == IF line = 0 THEN ZeroDivision
                ELSE SelectDivision(Field(s[line], DIVISION))
        games == SelectSeq(s, LAMBDA game :
                     ~DeletePastOrWrongDivision(game, div.swapsRegex, c))
        excludeDates == ExcludeDatesUpTo(games, Len(games), home, away)
        excludeTeams == ExcludeTeamsUpTo(games, Len(games), date)
    IN  IF ~FieldCountOk(s) THEN Stopped("fatal")
        ELSE IF line # 0 /\ ~ParseOk(date) THEN Stopped("fatal")
        ELSE IF line # 0 /\ Before(ParseTime(date), c) THEN Stopped("return")
        ELSE [pc |-> "done",
              output |-> SelectSeq(games, LAMBDA game :
                             ~DeleteExcluded(game, excludeDates, excludeTeams)),
              excludeDates |-> excludeDates,
              excludeTeams |-> excludeTeams]

\* s without its i-th record
RemoveAt(s, i) == SubSeq(s, 1, i - 1) \o SubSeq(s, i + 1, Len(s))

\* records other than the target whose date does not parse
UnparsedOthers ==
    { i \in 1..Len(schedule) :
         i # TargetLine /\ ~ParseOk(Field(schedule[i], DATE)) }

\* C18: a row other than the target whose date does not parse is not a
\* candidate, adds nothing to excludeDates or excludeTeams and causes no
\* error: where main stops, what it writes and the exclusion lists are
\* those of the run on the schedule without that row.
C18_UnparsedRowIsIgnored ==
    pc \in {"done", "fatal", "return"} =>
        \A i \in UnparsedOthers :
            /\ Outcome = Resolve(RemoveAt(schedule, i), swap.gameId, cutOffDate)
            /\ \A k \in 1..Len(output) : output[k] # schedule[i]

\* C18 case: an undated game of the target's own teams and division stands
\* between the target and a candidate that is returned
C18_Witness ==
    /\ pc = "done"
    /\ Resolvable
    /\ Len(schedule) = 3
    /\ 2 \in UnparsedOthers
    /\ Plays(schedule[2], swap.home)
    /\ MatchString(division.swapsRegex, Field(schedule[2], DIVISION))
    /\ output = <<schedule[3]>>

----------------------------------------------------------------------------
(* schedules with a record of another length.  The file is the one         *)
(* downloadSchedule wrote, so its first record is the header line.         *)

MaxRows == 3

\* a game line that lacks its last field
ShortGame ==
    <<Label(U15, "A"), idG5, d0312, tm, rink, sC>>

RowPool ==
    { Game(Label(U13, "A"), idG1, d0310, sA, sB),
      Game(Label(U15, "A"), idG2, d0312, sC, sD),
      Game(Label(U15, "B"), idG3, d0310, sE, sF),
      ShortGame }

RaggedSchedules ==
    { <<Header>> \o rows : rows \in UNION { [1..n -> RowPool] : n \in 0..MaxRows } }

InitRagged ==
    /\ schedule \in RaggedSchedules
    /\ cutOffDate \in CutOffDates
    /\ \E id \in GameIds : swap = ZeroSwap(id)
    /\ division = ZeroDivision
    /\ output = <<>>
    /\ pc = "read"
    /\ arg = <<>>
    /\ res = <<>>
    /\ loaded = <<>>

SpecRagged == InitRagged /\ [][Next]_vars

\* records that do not have the number of fields of the header
WrongFieldCount ==
    { i \in 1..Len(schedule) : Len(schedule[i]) # Len(Header) }

\* C19: a row with the wrong number of fields is dropped silently and
\* never raises: the run over a schedule holding such a row still
\* completes, with the outcome of the run on the schedule without it.
C19_WrongFieldCountIsDropped ==
    (Resolvable /\ pc \in {"done", "fatal", "return"}) =>
        \A i \in WrongFieldCount :
            /\ pc # "fatal"
            /\ Outcome = Resolve(RemoveAt(schedule, i), swap.gameId, cutOffDate)

----------------------------------------------------------------------------
(* the worked example                                                      *)

FixtureG1 == Game(Label(U13, "A"), idG1, d0310, sA, sB)
FixtureG2 == Game(Label(U15, "A"), idG2, d0312, sC, sD)
FixtureG3 == Game(Label(U15, "B"), idG3, d0310, sE, sF)

Fixture == <<FixtureG1, FixtureG2, FixtureG3>>

\* the run on the fixture: target G1, cut-off on 2025-03-01
OnFixture ==
    /\ schedule = Fixture
    /\ swap.gameId = idG1
    /\ CutOffDay = DayNumber(<<"2", "0", "2", "5", "-", "0", "3", "-", "0", "1">>)

\* C20: on the schedule [G1 U13 A 2025-03-10 A-B, G2 U15 A 2025-03-12 C-D,
\* G3 U15 B 2025-03-10 E-F] with cut-off 2025-03-01 and target G1 the run
\* completes and the candidates are exactly [G2].
C20_FixtureCandidates ==
    OnFixture =>
        /\ pc \notin {"fatal", "return"}
        /\ pc \in {"write", "done"} => swap.games = <<FixtureG2>>
        /\ pc = "done" => output = <<FixtureG2>>

\* C20 case: the run on the fixture has written its result
C20_Witness ==
    /\ OnFixture
    /\ pc = "done"
    /\ swap.date = d0310
    /\ output = <<FixtureG2>>

----------------------------------------------------------------------------
(* the intermediate values of the worked example                           *)

\* the elements of a list
Elements(list) == { list[i] : i \in 1..Len(list) }

\* C21 as stated: on the fixture (target G1, cut-off 2025-03-01) the
\* candidate universe is {G2, G3}, excludeDates is {2025-03-10} and
\* excludeTeams is {A, B}.
C21_FixtureIntermediateAsStated ==
    OnFixture =>
        /\ pc \in {"exclude", "final"} =>
              Elements(swap.games) = {FixtureG2, FixtureG3}
        /\ pc \in {"final", "write", "done"} =>
              /\ Elements(swap.excludeDates) = {d0310}
              /\ Elements(swap.excludeTeams) = {sA, sB}

\* C21 amended: on the fixture the games left by the cut-off and division
\* filter are G1, G2 and G3 (the target's own division is swappable),
\* excludeDates is [2025-03-10] and excludeTeams holds the teams of every
\* scanned game of 2025-03-10: A, B, E and F.
C21_FixtureIntermediate ==
    OnFixture =>
        /\ pc \in {"exclude", "final"} => swap.games = Fixture
        /\ pc \in {"final", "write", "done"} =>
              /\ swap.excludeDates = <<d0310>>
              /\ swap.excludeTeams = <<sA, sB, sE, sF>>

\* C21 case: the exclusion lists of the fixture have just been built
C21_Witness ==
    /\ OnFixture
    /\ pc = "final"
    /\ swap.games = Fixture
    /\ swap.excludeDates = <<d0310>>
    /\ swap.excludeTeams = <<sA, sB, sE, sF>>

----------------------------------------------------------------------------
(* two resolutions at once.  A resolution is a run of main: it computes   *)
(* its own cutOffDate, downloads the schedule into ./schedule.csv, opens   *)
(* the file, asks for the game id, reads the file into an array of its     *)
(* own and goes on as above.  Here `schedule` is the content of            *)
(* ./schedule.csv, which every run rewrites, `arg` is scheduleRecords, the *)
(* games the download returns, and res[r] is run r.  The steps of the two  *)
(* runs are taken in any order.  The file holds the records as csv.Writer  *)
(* wrote them and ReadRecords is what csv.Reader makes of them.            *)
(* res[r].read keeps what reader.ReadAll                                   *)
(* returned to run r, the schedule that run has loaded: swap.games and the *)
(* array behind it change in the filters.                                  *)

MaxShared == 2

\* bufio's default buffer, which csv.NewWriter writes through
BufferSize == 4096

\* a team name with a line break in it, CR LF
sTwoLines == <<"A", "\r", "\n", "B">>

SharedPool ==
    { Game(Label(U13, "A"), idG1, d0310, sA, sB),
      Game(Label(U15, "A"), idG2, d0312, sC, sD),
      Game(Label(U15, "B"), idG3, d0310, sE, sF),
      Game(Label(U9, "A"), idG4, d0312, sA, sH),
      Game(Label(U13, "B"), idG5, d0312, sTwoLines, sB) }

SharedSchedules == UNION { [1..n -> SharedPool] : n \in 0..MaxShared }

SharedIds == {idG1, idG2}

Resolutions == 1..2

\* unicode.IsSpace on the model's alphabet, ASCII and Latin-1: tab, LF,
\* VT, FF, CR, space, U+0085 and U+00A0; the three that have no escape in
\* a string here are named tokens, as the accented letters are
SpaceRunes ==
    {" ", "\t", "\n", "\f", "\r", "vertical_tab", "next_line", "no_break_space"}

\* len(c) for a rune of the model's alphabet: the runes above U+007F take
\* two bytes in UTF-8, ASCII takes one
ByteLen(c) ==
    IF \/ \E i \in 1..Len(LowerAccented) :
              c = LowerAccented[i] \/ c = UpperAccented[i]
       \/ c \in {"next_line", "no_break_space"}
    THEN 2 ELSE 1

\* csv.Writer's fieldNeedsQuotes with Comma = ',': the empty field is
\* written bare, `\.` is quoted, and so is a field holding a comma, a quote,
\* a CR or LF, or starting with a rune of unicode.IsSpace
fieldNeedsQuotes(field) ==
    IF field = <<>> THEN FALSE
    ELSE IF field = <<"\\", ".">> THEN TRUE
    ELSE \/ \E i \in 1..Len(field) : field[i] \in {",", "\"", "\r", "\n"}
         \/ field[1] \in SpaceRunes

\* bytes of the first n runes of a field written bare
RECURSIVE BareBytesUpTo(_, _)
BareBytesUpTo(field, n) ==
    IF n = 0 THEN 0 ELSE BareBytesUpTo(field, n - 1) + ByteLen(field[n])

\* bytes of the first n runes of a field written between quotes: a quote is
\* doubled, CR and LF go out as they are (UseCRLF is false)
RECURSIVE QuotedBytesUpTo(_, _)
QuotedBytesUpTo(field, n) ==
    IF n = 0 THEN 0
    ELSE QuotedBytesUpTo(field, n - 1)
            + (IF field[n] = "\"" THEN 2 ELSE ByteLen(field[n]))

\* bytes csv.Writer.Write puts out for one field
FieldBytes(field) ==
    IF fieldNeedsQuotes(field)
    THEN 2 + QuotedBytesUpTo(field, Len(field))
    ELSE BareBytesUpTo(field, Len(field))

\* bytes of the first n fields of a record, a comma before each but the first
RECURSIVE FieldBytesUpTo(_, _)
FieldBytesUpTo(record, n) ==
    IF n = 0 THEN 0
    ELSE FieldBytesUpTo(record, n - 1)
            + (IF n > 1 THEN 1 ELSE 0) + FieldBytes(record[n])

\* bytes of the first n records written as CSV lines, each ended by a newline
RECURSIVE CsvBytesUpTo(_, _)
CsvBytesUpTo(records, n) ==
    IF n = 0 THEN 0
    ELSE CsvBytesUpTo(records, n - 1)
            + FieldBytesUpTo(records[n], Len(records[n])) + 1

CsvBytes(records) == CsvBytesUpTo(records, Len(records))

\* what downloadSchedule writes: the header line, then one line per game
Downloaded(scheduleRecords) == <<Header>> \o scheduleRecords

\* a field as csv.Reader gives it back, from position i on: the reader
\* turns the CR LF that ends a line into LF, also inside a quoted field, so
\* a carriage return before a newline is gone; all else comes back as written
RECURSIVE ReadFieldFrom(_, _)
ReadFieldFrom(field, i) ==
    IF i > Len(field) THEN <<>>
    ELSE IF i < Len(field) /\ field[i] = "\r" /\ field[i + 1] = "\n"
         THEN ReadFieldFrom(field, i + 1)
         ELSE <<field[i]>> \o ReadFieldFrom(field, i + 1)

\* a field as the reader gives it back; one without a carriage return
\* comes back as it is
ReadField(field) ==
    IF \A i \in 1..Len(field) : field[i] # "\r" THEN field
    ELSE ReadFieldFrom(field, 1)

\* the first k fields of a record as the reader gives them back
RECURSIVE ReadRecordUpTo(_, _)
ReadRecordUpTo(record, k) ==
    IF k = 0 THEN <<>>
    ELSE Append(ReadRecordUpTo(record, k - 1), ReadField(record[k]))

\* reader.ReadAll() on the first n of the records `written` by csv.Writer:
\* a record written as an empty line (no field, or one empty field) is
\* skipped, the fields of the others are read back
RECURSIVE ReadRecordsUpTo(_, _)
ReadRecordsUpTo(written, n) ==
    IF n = 0 THEN <<>>
    ELSE IF written[n] = <<>> \/ written[n] = << <<>> >>
         THEN ReadRecordsUpTo(written, n - 1)
         ELSE Append(ReadRecordsUpTo(written, n - 1),
                     ReadRecordUpTo(written[n], Len(written[n])))

ReadRecords(written) == ReadRecordsUpTo(written, Len(written))

\* a run at the start of main; cutOffDate := time.Now().AddDate(0, 0, 10)
\* and the id typed at the prompt are its own
InitShared ==
    /\ schedule = <<>>
    /\ cutOffDate = 0
    /\ swap = ZeroSwap(<<>>)
    /\ division = ZeroDivision
    /\ output = <<>>
    /\ pc = "shared"
    /\ arg \in SharedSchedules
    /\ CsvBytes(Downloaded(arg)) <= BufferSize
    /\ loaded = <<>>
    /\ \E ids \in [Resolutions -> SharedIds] :
       \E cuts \in [Resolutions -> CutOffDates] :
          res = [r \in Resolutions |->
                   [swap |-> ZeroSwap(ids[r]),
                    cutOffDate |-> cuts[r],
                    division |-> ZeroDivision,
                    output |-> <<>>,
                    loaded |-> <<>>,
                    read |-> <<>>,
                    pc |-> "create"]]

\* downloadSchedule up to csvFile, err := os.Create(filepath): the file is
\* truncated
SharedCreate(r) ==
    /\ pc = "shared"
    /\ res[r].pc = "create"
    /\ schedule' = <<>>
    /\ res' = [res EXCEPT ![r].pc = "flush"]
    /\ UNCHANGED <<cutOffDate, swap, division, output, pc, arg, loaded>>

\* the rest of downloadSchedule: the lines go to the writer's buffer, which
\* they do not fill, and reach the file in the deferred writer.Flush()
SharedFlush(r) ==
    /\ pc = "shared"
    /\ res[r].pc = "flush"
    /\ schedule' = Downloaded(arg)
    /\ res' = [res EXCEPT ![r].pc = "read"]
    /\ UNCHANGED <<cutOffDate, swap, division, output, pc, arg, loaded>>

\* swap.games, err = reader.ReadAll(): what the file holds now, as the
\* reader gives it back, in a fresh array
SharedReadAll(r) ==
    /\ pc = "shared"
    /\ res[r].pc = "read"
    /\ \E records \in {ReadRecords(schedule)} :
           res' = [res EXCEPT ![r] =
              IF FieldCountOk(records)
              THEN [@ EXCEPT !.swap.games = records,
                             !.loaded = records,
                             !.read = records,
                             !.pc = "find"]
              ELSE [@ EXCEPT !.read = records, !.pc = "fatal"]]
    /\ UNCHANGED <<schedule, cutOffDate, swap, division, output, pc, arg, loaded>>

\* for line, game := range swap.games { if game[GAMEID] == swap.gameId {...} }
SharedFind(r) ==
    /\ pc = "shared"
    /\ res[r].pc = "find"
    /\ LET req == res[r]
           line == FirstWithId(req.swap.games, req.swap.gameId)
       IN  res' = [res EXCEPT ![r] =
              IF line = 0 THEN [req EXCEPT !.pc = "filter"]
              ELSE LET game == req.swap.games[line]
                   IN  [req EXCEPT
                          !.swap.date = Field(game, DATE),
                          !.swap.home = Field(game, HOMETEAM),
                          !.swap.away = Field(game, AWAYTEAM),
                          !.division = SelectDivision(Field(game, DIVISION)),
                          !.pc = IF ~ParseOk(Field(game, DATE)) THEN "fatal"
                                 ELSE IF Before(ParseTime(Field(game, DATE)),
                                                req.cutOffDate)
                                      THEN "return"
                                      ELSE "filter"]]
    /\ UNCHANGED <<schedule, cutOffDate, swap, division, output, pc, arg, loaded>>

\* swap.games = slices.DeleteFunc(swap.games, ...): the first filter
SharedCutoffFilter(r) ==
    /\ pc = "shared"
    /\ res[r].pc = "filter"
    /\ LET req == res[r]
           kept == SelectSeq(req.swap.games,
                      LAMBDA game : ~DeletePastOrWrongDivision(
                                        game, req.division.swapsRegex,
                                        req.cutOffDate))
       IN  res' = [res EXCEPT ![r] =
                     [req EXCEPT !.swap.games = kept,
                                 !.loaded = DeleteFuncArray(@, kept),
                                 !.pc = "exclude"]]
    /\ UNCHANGED <<schedule, cutOffDate, swap, division, output, pc, arg, loaded>>

\* the loop as it would be with one swap_t for all runs: the lists it builds
\* are the lists of every run
SharedBuildExcludesOneSwap(r) ==
    /\ pc = "shared"
    /\ res[r].pc = "exclude"
    /\ LET req == res[r]
           games == req.swap.games
           excludeDates == ExcludeDatesUpTo(games, Len(games),
                                            req.swap.home, req.swap.away)
           excludeTeams == ExcludeTeamsUpTo(games, Len(games), req.swap.date)
       IN  res' = [q \in Resolutions |->
              [res[q] EXCEPT
                 !.swap.excludeDates = excludeDates,
                 !.swap.excludeTeams = excludeTeams,
                 !.pc = IF q = r THEN "final" ELSE @]]
    /\ UNCHANGED <<schedule, cutOffDate, swap, division, output, pc, arg, loaded>>

\* the excludeDates / excludeTeams loop
SharedBuildExcludes(r) ==
    /\ pc = "shared"
    /\ res[r].pc = "exclude"
    /\ LET req == res[r]
           games == req.swap.games
       IN  res' = [res EXCEPT ![r] =
              [req EXCEPT
                 !.swap.excludeDates =
                     ExcludeDatesUpTo(games, Len(games),
                                      req.swap.home, req.swap.away),
                 !.swap.excludeTeams =
                     ExcludeTeamsUpTo(games, Len(games), req.swap.date),
                 !.pc = "final"]]
    /\ UNCHANGED <<schedule, cutOffDate, swap, division, output, pc, arg, loaded>>

\* swap.games = slices.DeleteFunc(swap.games, ...): the second filter
SharedFinalFilter(r) ==
    /\ pc = "shared"
    /\ res[r].pc = "final"
    /\ LET req == res[r]
           kept == SelectSeq(req.swap.games,
                      LAMBDA game : ~DeleteExcluded(game, req.swap.excludeDates,
                                                    req.swap.excludeTeams))
       IN  res' = [res EXCEPT ![r] =
                     [req EXCEPT !.swap.games = kept,
                                 !.loaded = DeleteFuncArray(@, kept),
                                 !.pc = "write"]]
    /\ UNCHANGED <<schedule, cutOffDate, swap, division, output, pc, arg, loaded>>

\* for _, g := range swap.games { csvFile.WriteString(strings.Join(g, ",")) }
SharedWriteResults(r) ==
    /\ pc = "shared"
    /\ res[r].pc = "write"
    /\ res' = [res EXCEPT ![r].output = res[r].swap.games, ![r].pc = "done"]
    /\ UNCHANGED <<schedule, cutOffDate, swap, division, output, pc, arg, loaded>>

NextShared ==
    \/ \E r \in Resolutions : SharedCreate(r)
    \/ \E r \in Resolutions : SharedFlush(r)
    \/ \E r \in Resolutions : SharedReadAll(r)
    \/ \E r \in Resolutions : SharedFind(r)
    \/ \E r \in Resolutions : SharedCutoffFilter(r)
    \/ \E r \in Resolutions : SharedBuildExcludes(r)
    \/ \E r \in Resolutions : SharedFinalFilter(r)
    \/ \E r \in Resolutions : SharedWriteResults(r)

SpecShared == InitShared /\ [][NextShared]_vars

\* what run r leaves
OutcomeOf(req) ==
    [pc |-> req.pc, output |-> req.output,
     excludeDates |-> req.swap.excludeDates,
     excludeTeams |-> req.swap.excludeTeams]

\* run r has come to its end
Ended(r) == res[r].pc \in {"done", "fatal", "return"}

----------------------------------------------------------------------------
(* the exclusion dates against the records scanned                         *)

\* C23: excludeDates is exactly the set of dates of the scanned records
\* that name the target's home or away team as their home or away team,
\* by normalized name; a respelled name (case, score) counts, a name in
\* another field does not.
C23_ExcludeDatesByTeamFields ==
    (Resolvable /\ pc = "final") =>
        Elements(swap.excludeDates)
            = { Field(swap.games[i], DATE) : i \in
                  { j \in 1..Len(swap.games) :
                       \/ Plays(swap.games[j], swap.home)
                       \/ Plays(swap.games[j], swap.away) } }

----------------------------------------------------------------------------
(* schedules in which several records carry the same game id               *)

MaxDup == 3

DupPool ==
    { Game(Label(U13, "A"), idG1, d0310, sA, sB),
      Game(Label(U15, "A"), idG1, d0312, sC, sD),
      Game(Label(U13, "A"), idG1, dEmpty, sE, sF),
      Game(Label(U15, "B"), idG3, d0312, sE, sF) }

DupSchedules == UNION { [1..n -> DupPool] : n \in 0..MaxDup }

InitDup ==
    /\ schedule \in DupSchedules
    /\ cutOffDate \in CutOffDates
    /\ \E id \in {idG1, idG3} : swap = ZeroSwap(id)
    /\ division = ZeroDivision
    /\ output = <<>>
    /\ pc = "read"
    /\ arg = <<>>
    /\ res = <<>>
    /\ loaded = <<>>

SpecDup == InitDup /\ [][Next]_vars

\* the records of the schedule carrying the id typed in
WithTargetId ==
    { i \in 1..Len(schedule) : Field(schedule[i], GAMEID) = swap.gameId }

\* C24: when several records carry the target's game id, date, home team,
\* away team and division are those of the first of them in schedule
\* order, and that record alone decides between the fatal malformed date,
\* the early return before the cut-off and going on.
C24_FirstRecordDecides ==
    pc \notin {"read", "find"} =>
        \A i \in WithTargetId :
            (\A j \in WithTargetId : i <= j) =>
                /\ swap.date = Field(schedule[i], DATE)
                /\ swap.home = Field(schedule[i], HOMETEAM)
                /\ swap.away = Field(schedule[i], AWAYTEAM)
                /\ division = SelectDivision(Field(schedule[i], DIVISION))
                /\ pc = "fatal" <=> ~ParseOk(swap.date)
                /\ pc = "return" <=>
                      /\ ParseOk(swap.date)
                      /\ Before(ParseTime(swap.date), cutOffDate)

\* C24 case: a second record with the target's id has other teams and a
\* date that does not parse, and the run completes on the first
C24_Witness ==
    /\ pc = "done"
    /\ Cardinality(WithTargetId) >= 2
    /\ \E i, j \in WithTargetId :
          /\ i < j
          /\ swap.home = Field(schedule[i], HOMETEAM)
          /\ swap.home # Field(schedule[j], HOMETEAM)
          /\ ~ParseOk(Field(schedule[j], DATE))

----------------------------------------------------------------------------
(* what the candidates cannot be                                           *)

\* C25: whenever the run completes for a game of the schedule, that game
\* is not among the candidates written: no candidate is the target's
\* record or carries its id.
C25_TargetNotCandidate ==
    (pc = "done" /\ Found) =>
        \A k \in 1..Len(output) :
            /\ output[k] # TargetGame
            /\ Field(output[k], GAMEID) # swap.gameId

\* C25 case: the target passed the cut-off and division filter, so only
\* the exclusions removed it, and candidates were written
C25_Witness ==
    /\ pc = "done"
    /\ Resolvable
    /\ ~DeletePastOrWrongDivision(TargetGame, division.swapsRegex, cutOffDate)
    /\ Contains(swap.excludeDates, Field(TargetGame, DATE))
    /\ Len(output) >= 1


\* C26: whenever the run completes, no candidate written has the target's
\* home team or away team, by normalized name, as its home or away team.
C26_NoCandidateOfTargetTeams ==
    (pc = "done" /\ Resolvable) =>
        \A k \in 1..Len(output) :
            /\ ~Plays(output[k], swap.home)
            /\ ~Plays(output[k], swap.away)

\* C27: whenever the run completes for a game of the schedule, no
\* candidate written is played on the target game's date.
C27_NoCandidateOnTargetDate ==
    (pc = "done" /\ Found) =>
        \A k \in 1..Len(output) :
            Field(output[k], DATE) # Field(TargetGame, DATE)

----------------------------------------------------------------------------
(* the division table read in both directions                              *)

\* C28: compatibility is symmetric over the table: the swapsRegex of
\* entry X accepts the name of entry Y exactly when the swapsRegex of Y
\* accepts the name of X.
C28_CompatibilitySymmetric ==
    pc = "looked" =>
        \A m \in 1..Len(divisions) :
            divisions[m].name = arg.label =>
                (res.swappable <=>
                    MatchString(divisions[m].swapsRegex,
                                divisions[arg.rule].name))

\* C28 case: U18 A looked up against U15 B, two different age groups that
\* accept each other
C28_Witness ==
    /\ pc = "looked"
    /\ divisions[arg.rule].name = Label(U18, "A")
    /\ arg.label = Label(U15, "B")
    /\ res.swappable
    /\ \E m \in 1..Len(divisions) :
          /\ divisions[m].name = arg.label
          /\ MatchString(divisions[m].swapsRegex, Label(U18, "A"))

====
